---- MODULE Spec2Model ----
\* A model of the dev-mode watcher of src/watcher/watcher.ts: the supervisor
\* that owns one runner child process, restarts it on file changes, and
\* relays shutdown signals to it.
\*
\* One action is one run of one event-loop callback (Node runs callbacks to
\* completion, one at a time), or one step of the environment (the runner
\* process dying, its channel closing, a kill of its process tree settling).
EXTENDS Integers, Sequences, FiniteSets, TLC

\* ---------------------------------------------------------------- bounds
MaxProcs == 3           \* runners spawned in one behaviour
MaxAbsorbed == 2        \* restart triggers absorbed by one in-flight restart
MaxDeferred == 1        \* restart calls a plugin holds back for later
NumPlugins == 2         \* plugins that registered onFileWatcherEvent
MaxPathLen == 2         \* length of a required path, in tokens
MaxWatched == 2         \* paths added to the watcher in one behaviour

\* ---------------------------------------------------------------- values
ExitCodes == {"0", "1", "null"}      \* "null": ended by a signal
Signals == {"SIGTERM", "SIGINT"}
Plugins == 1..NumPlugins
\* what a plugin's onFileWatcherEvent does with the restart callback it is
\* handed: nothing, call it at once, or keep it and call it later
PluginBehaviours == {"none", "sync", "defer"}

\* Paths of required modules are sequences of tokens: "N" is the substring
\* node_modules, "a" and "b" are stretches of text without it.
Tokens == {"a", "b", "N"}
RECURSIVE SeqsUpTo(_)
SeqsUpTo(n) ==
    IF n = 0 THEN {<<>>}
    ELSE LET shorter == SeqsUpTo(n - 1)
         IN shorter \cup {Append(q, t) : q \in {r \in shorter : Len(r) = n - 1}, t \in Tokens}
Paths == SeqsUpTo(MaxPathLen) \ {<<>>}
tsConfigPath == <<"a", "b">>

\* Files the watcher reports, and the glob patterns of the plugins, each
\* pattern given by the set of files it matches.
Files == {"app.ts", "schema.prisma", "seed.ts", "migration.sql"}
ignoreFilePatternsApp == {{"schema.prisma", "migration.sql"}}
allowFilePatternsPlugin == {{"schema.prisma", "seed.ts", "migration.sql"}}
ignoreFilePatternsPlugin == {{"migration.sql"}}

VARIABLES
    procs,              \* every runner spawned so far, in spawn order
    runner,             \* index in procs of the current runner
    runnerRestarting,   \* the restart dedupe flag
    paused,             \* the watcher's pause flag
    watched,            \* paths added to the watcher with addSilently
    sigtermOps,         \* runners whose kill, sent at shutdown, has not settled
    resolved,           \* createWatcher's promise is resolved
    session,            \* "running", or the code process.exit was given
    deferred,           \* restart calls plugins still hold back
    cfg,                \* the configuration: respawn, deps, ignore
    absorbed,           \* triggers the in-flight restart has absorbed
    cycle,              \* how far the restart cycle of a file change has come
    ev                  \* the callback that ran last and what it did

vars == <<procs, runner, runnerRestarting, paused, watched, sigtermOps,
          resolved, session, deferred, cfg, absorbed, cycle, ev>>

\* The state as one record, so that a callback is a function on states and
\* callbacks that run one after the other compose.
St ==
    [procs |-> procs, runner |-> runner, runnerRestarting |-> runnerRestarting,
     paused |-> paused, watched |-> watched, sigtermOps |-> sigtermOps,
     resolved |-> resolved, session |-> session, deferred |-> deferred,
     cfg |-> cfg, absorbed |-> absorbed, cycle |-> cycle, ev |-> ev]

Set(s) ==
    /\ procs' = s.procs
    /\ runner' = s.runner
    /\ runnerRestarting' = s.runnerRestarting
    /\ paused' = s.paused
    /\ watched' = s.watched
    /\ sigtermOps' = s.sigtermOps
    /\ resolved' = s.resolved
    /\ session' = s.session
    /\ deferred' = s.deferred
    /\ cfg' = s.cfg
    /\ absorbed' = s.absorbed
    /\ cycle' = s.cycle
    /\ ev' = s.ev

\* The record of one callback run: which callback, for which runner, with
\* which argument, and what it did (the code logs each of these).
Event(kind, proc, arg) ==
    [kind |-> kind, proc |-> proc, arg |-> arg,
     stopNoop |-> {},     \* runners stopRunner was called on and returned early
     stopDone |-> {},     \* runners stopRunner went through with
     sigterm |-> {},      \* runners stopRunner sent a termination signal to
     spawned |-> 0,       \* calls of startRunner
     added |-> {}]        \* paths handed to watcher.addSilently

\* ---------------------------------------------------------- the watcher
\* ./chokidar is not part of the sources: pause and resume set and clear one
\* flag, addSilently extends the watched set.
pause(s) == [s EXCEPT !.paused = TRUE]
resume(s) == [s EXCEPT !.paused = FALSE]
addSilently(s, path) ==
    [s EXCEPT !.watched = @ \cup {path}, !.ev.added = @ \cup {path}]

\* ./utils sendSigterm is not part of the sources: it starts the kill of
\* the process tree and returns a promise that settles later. Only the
\* promise of a shutdown has callbacks that change state; those of stopRunner
\* write a log line.
sendSigterm(s, child, awaited) ==
    LET s1 == [s EXCEPT !.procs[child].signalled = TRUE]
    IN IF awaited THEN [s1 EXCEPT !.sigtermOps = @ \cup {child}] ELSE s1

\* ------------------------------------------------------- pure functions
RECURSIVE lastIndexOf(_, _)
lastIndexOf(mod, t) ==
    IF Len(mod) = 0 THEN 0
    ELSE IF mod[Len(mod)] = t THEN Len(mod)
    ELSE lastIndexOf(SubSeq(mod, 1, Len(mod) - 1), t)

getPrefix(mod) ==
    LET i == lastIndexOf(mod, "N")
    IN IF i # 0 THEN SubSeq(mod, 1, i) ELSE <<>>

\* p.split('node_modules').length - 1: the occurrences of node_modules in p
getLevel(mod) ==
    LET p == getPrefix(mod)
    IN Cardinality({i \in 1..Len(p) : p[i] = "N"})

\* value.indexOf(prefix) === 0
isPrefixOf(value, prefix) ==
    /\ Len(prefix) <= Len(value)
    /\ SubSeq(value, 1, Len(prefix)) = prefix

\* new RegExp(regExp).test(value); the rules of this model hold no
\* metacharacters, so the expression matches where the rule is a substring
isRegExpMatch(value, regExp) ==
    \E i \in 0..(Len(value) - Len(regExp)) :
        SubSeq(value, i + 1, i + Len(regExp)) = regExp

\* anymatch(matchers): a negated pattern that matches wins, then any
\* positive pattern
createPathMatcher(toMatch, toIgnore, file) ==
    /\ ~ \E g \in toIgnore : file \in g
    /\ \E g \in toMatch : file \in g

isIgnoredByCoreListener(file) == createPathMatcher(ignoreFilePatternsApp, {}, file)
isMatchedByPluginListener(file) ==
    createPathMatcher(allowFilePatternsPlugin, ignoreFilePatternsPlugin, file)

\* --------------------------------------------------------- the runner
\* fork(...) and the flags startRunner sets on the new child
startRunner(s) ==
    LET child == [os |-> "alive",          \* alive, then ended, then 'exit' emitted
                  code |-> "null",         \* the exit code of the pending 'exit'
                  exited |-> FALSE,
                  stopping |-> FALSE,
                  respawn |-> s.cfg.respawn,
                  connected |-> "true",
                  restartListeners |-> 0,  \* 'exit' listeners of restartRunner
                  disconnects |-> 0,       \* calls of child.disconnect()
                  signalled |-> FALSE,     \* sendSigterm was called on it
                  announced |-> FALSE,     \* it sent an error with willTerminate
                  sigterms |-> 0]          \* sendSigterm calls of stopRunner
        s1 == [s EXCEPT !.procs = Append(@, child),
                        !.ev.spawned = @ + 1]
    IN addSilently(s1, tsConfigPath)

\* What is left of a runner whose 'exit' event has been emitted once no
\* variable refers to its handle any more: that it existed and has exited.
Discarded(child) ==
    IF child.os = "reaped" /\ child.exited
    THEN [child EXCEPT !.stopping = FALSE, !.respawn = FALSE, !.connected = "false",
                       !.restartListeners = 0, !.disconnects = 0, !.sigterms = 0,
                       !.signalled = FALSE, !.announced = FALSE]
    ELSE child

\* startRunnerDo as it would be if a spawn also resumed the watcher
startRunnerDo_resumes(s) ==
    LET s1 == startRunner(s)
    IN [s1 EXCEPT !.runner = Len(s1.procs),
                  !.paused = FALSE,
                  !.procs = [i \in DOMAIN s1.procs |->
                                IF i = s.runner THEN Discarded(s1.procs[i]) ELSE s1.procs[i]]]

\* runner = startRunnerDo(): the variable takes the new handle and lets go
\* of the old one
startRunnerDo(s) ==
    LET s1 == startRunner(s)
    IN [s1 EXCEPT !.runner = Len(s1.procs),
                  !.procs = [i \in DOMAIN s1.procs |->
                                IF i = s.runner THEN Discarded(s1.procs[i]) ELSE s1.procs[i]]]

\* stopRunner without its bookkeeping: no early return, no look at the channel
stopRunner_naive(s, child, willTerminate) ==
    LET s1 == [s EXCEPT !.procs[child].stopping = TRUE,
                        !.procs[child].respawn = TRUE,
                        !.procs[child].connected = "false",
                        !.procs[child].disconnects = @ + 1,
                        !.ev.stopDone = @ \cup {child}]
    IN IF willTerminate
       THEN s1
       ELSE sendSigterm([s1 EXCEPT !.procs[child].sigterms = @ + 1,
                                   !.ev.sigterm = @ \cup {child}],
                        child, FALSE)

\* stopRunner without child.respawn = true
stopRunner_noRespawn(s, child, willTerminate) ==
    IF s.procs[child].exited \/ s.procs[child].stopping
    THEN [s EXCEPT !.ev.stopNoop = @ \cup {child}]
    ELSE
        LET s1 == [s EXCEPT !.procs[child].stopping = TRUE,
                            !.ev.stopDone = @ \cup {child}]
        IN IF s1.procs[child].connected \in {"undefined", "true"}
           THEN LET s2 == [s1 EXCEPT !.procs[child].connected = "false",
                                     !.procs[child].disconnects = @ + 1]
                IN IF willTerminate
                   THEN s2
                   ELSE sendSigterm([s2 EXCEPT !.procs[child].sigterms = @ + 1,
                                               !.ev.sigterm = @ \cup {child}],
                                    child, FALSE)
           ELSE s1

\* stopRunner as it would be if it marked the child exited itself
stopRunner_marksExited(s, child, willTerminate) ==
    IF s.procs[child].exited \/ s.procs[child].stopping
    THEN [s EXCEPT !.ev.stopNoop = @ \cup {child}]
    ELSE
        LET s1 == [s EXCEPT !.procs[child].stopping = TRUE,
                            !.procs[child].respawn = TRUE,
                            !.procs[child].exited = TRUE,
                            !.ev.stopDone = @ \cup {child}]
        IN IF s1.procs[child].connected \in {"undefined", "true"}
           THEN LET s2 == [s1 EXCEPT !.procs[child].connected = "false",
                                     !.procs[child].disconnects = @ + 1]
                IN IF willTerminate
                   THEN s2
                   ELSE sendSigterm([s2 EXCEPT !.procs[child].sigterms = @ + 1,
                                               !.ev.sigterm = @ \cup {child}],
                                    child, FALSE)
           ELSE s1

stopRunner(s, child, willTerminate) ==
    IF s.procs[child].exited \/ s.procs[child].stopping
    THEN [s EXCEPT !.ev.stopNoop = @ \cup {child}]
    ELSE
        LET s1 == [s EXCEPT !.procs[child].stopping = TRUE,
                            !.procs[child].respawn = TRUE,
                            !.ev.stopDone = @ \cup {child}]
        IN IF s1.procs[child].connected \in {"undefined", "true"}
           THEN LET s2 == [s1 EXCEPT !.procs[child].connected = "false",
                                     !.procs[child].disconnects = @ + 1]
                IN IF willTerminate
                   THEN s2
                   ELSE sendSigterm([s2 EXCEPT !.procs[child].sigterms = @ + 1,
                                               !.ev.sigterm = @ \cup {child}],
                                    child, FALSE)
           ELSE s1

\* restartRunner as it would be if it did not wait for the runner's exit
restartRunner_eager(s, file) ==
    LET s1 == pause(s)
    IN IF s1.runnerRestarting
       THEN [s1 EXCEPT !.absorbed = @ + 1]
       ELSE
           LET s2 == [s1 EXCEPT !.runnerRestarting = TRUE, !.absorbed = 0]
           IN IF ~ s2.procs[s2.runner].exited
              THEN [startRunnerDo(stopRunner(s2, s2.runner, FALSE)) EXCEPT !.runnerRestarting = FALSE]
              ELSE [startRunnerDo(s2) EXCEPT !.runnerRestarting = FALSE]

\* restartRunner as it would be if a trigger during a restart queued another
restartRunner_queues(s, file) ==
    LET s1 == pause(s)
    IN IF s1.runnerRestarting
       THEN [s1 EXCEPT !.absorbed = @ + 1,
                       !.procs[s1.runner].restartListeners = @ + 1]
       ELSE
           LET s2 == [s1 EXCEPT !.runnerRestarting = TRUE, !.absorbed = 0]
           IN IF ~ s2.procs[s2.runner].exited
              THEN stopRunner([s2 EXCEPT !.procs[s2.runner].restartListeners = @ + 1],
                              s2.runner, FALSE)
              ELSE [startRunnerDo(s2) EXCEPT !.runnerRestarting = FALSE]

restartRunner(s, file) ==
    LET s1 == pause(s)
    IN IF s1.runnerRestarting
       THEN [s1 EXCEPT !.absorbed = @ + 1]      \* log('already starting')
       ELSE
           LET s2 == [s1 EXCEPT !.runnerRestarting = TRUE, !.absorbed = 0]
           IN IF ~ s2.procs[s2.runner].exited
              THEN stopRunner([s2 EXCEPT !.procs[s2.runner].restartListeners = @ + 1],
                              s2.runner, FALSE)
              ELSE [startRunnerDo(s2) EXCEPT !.runnerRestarting = FALSE]

\* the listeners of the child's 'exit' event, in the order they were added:
\* the one of startRunner, then those of restartRunner
RECURSIVE restartListenersRun(_, _)
restartListenersRun(s, n) ==
    IF n = 0 THEN s
    ELSE restartListenersRun([startRunnerDo(s) EXCEPT !.runnerRestarting = FALSE], n - 1)

\* the 'exit' handler as it would be if only an exit code ended the session
onExit_onlyOnCode(s, child, code) ==
    IF s.procs[child].exited THEN s
    ELSE IF ~ s.procs[child].respawn /\ code # "null"
    THEN [s EXCEPT !.session = code]
    ELSE restartListenersRun([s EXCEPT !.procs[child].exited = TRUE],
                             s.procs[child].restartListeners)

\* the 'exit' handler as it would be without process.exit
onExit_keepsSession(s, child, code) ==
    IF s.procs[child].exited THEN s
    ELSE restartListenersRun([s EXCEPT !.procs[child].exited = TRUE],
                             s.procs[child].restartListeners)

onExit(s, child, code) ==
    IF s.procs[child].exited THEN s
    ELSE IF ~ s.procs[child].respawn
    THEN [s EXCEPT !.session = IF code = "null" THEN "1" ELSE code]
    ELSE restartListenersRun([s EXCEPT !.procs[child].exited = TRUE],
                             s.procs[child].restartListeners)

\* the 'required' handler with < for <=
onRequired_strict(s, required) ==
    LET isIgnored ==
            \/ \E rule \in s.cfg.ignore : isPrefixOf(required, rule)
            \/ \E rule \in s.cfg.ignore : isRegExpMatch(required, rule)
    IN IF ~ isIgnored /\ (s.cfg.deps = -1 \/ getLevel(required) < s.cfg.deps)
       THEN addSilently(s, required)
       ELSE s

\* ipc 'required'
onRequired(s, required) ==
    LET isIgnored ==
            \/ \E rule \in s.cfg.ignore : isPrefixOf(required, rule)
            \/ \E rule \in s.cfg.ignore : isRegExpMatch(required, rule)
    IN IF ~ isIgnored /\ (s.cfg.deps = -1 \/ getLevel(required) <= s.cfg.deps)
       THEN addSilently(s, required)
       ELSE s

\* onError as it would be if it dropped willTerminate
onError_forcesKill(s, willTerminate) == resume(stopRunner(s, s.runner, FALSE))

\* ipc 'error': callbacks.onError(m.willTerminate) of startRunnerDo
onError(s, willTerminate) == resume(stopRunner(s, s.runner, willTerminate))

\* the ready handler without watcher.resume()
onServerReady_noResume(s) == s

\* ipc SERVER_READY_SIGNAL
onServerReady(s) == resume(s)

\* the shutdown handler as it would be if it did not wait for the kill
stopRunnerOnBeforeExit_noWait(s) ==
    IF s.procs[s.runner].exited
    THEN [s EXCEPT !.resolved = TRUE]
    ELSE [sendSigterm(s, s.runner, TRUE) EXCEPT !.resolved = TRUE]

\* the SIGTERM and SIGINT handlers: stopRunnerOnBeforeExit().then(resolve)
stopRunnerOnBeforeExit(s) ==
    IF s.procs[s.runner].exited
    THEN [s EXCEPT !.resolved = TRUE]
    ELSE sendSigterm(s, s.runner, TRUE)

\* the core listener of the watcher's 'all' event
coreListener(s, file) ==
    IF isIgnoredByCoreListener(file) THEN s ELSE restartRunner(s, file)

\* the listener of one plugin: p.dev.onFileWatcherEvent is the plugin's own
\* code and may call the restart callback, or keep it for later
pluginListener(s, file, behaviour) ==
    IF isMatchedByPluginListener(file)
    THEN CASE behaviour = "sync" -> restartRunner(s, file)
           [] behaviour = "defer" -> [s EXCEPT !.deferred = @ + 1]
           [] OTHER -> s
    ELSE s

RECURSIVE pluginListeners(_, _, _, _)
pluginListeners(s, file, behaviours, i) ==
    IF i > NumPlugins THEN s
    ELSE pluginListeners(pluginListener(s, file, behaviours[i]), file, behaviours, i + 1)

\* ---------------------------------------------------------------- Init
Configs ==
    [respawn : BOOLEAN, deps : {0}, ignore : {{<<"b">>, <<"a", "a">>}}]

InitWith(configs) ==
    \E c \in configs :
        LET s0 == [procs |-> <<>>, runner |-> 0, runnerRestarting |-> FALSE,
                   paused |-> FALSE, watched |-> {}, sigtermOps |-> {},
                   resolved |-> FALSE, session |-> "running", deferred |-> 0,
                   cfg |-> c, absorbed |-> 0, cycle |-> "idle",
                   ev |-> Event("init", 0, "")]
            s1 == startRunnerDo(s0)
        IN /\ procs = s1.procs
           /\ runner = s1.runner
           /\ runnerRestarting = s1.runnerRestarting
           /\ paused = s1.paused
           /\ watched = s1.watched
           /\ sigtermOps = s1.sigtermOps
           /\ resolved = s1.resolved
           /\ session = s1.session
           /\ deferred = s1.deferred
           /\ cfg = s1.cfg
           /\ absorbed = s1.absorbed
           /\ cycle = s1.cycle
           /\ ev = s1.ev

Init == InitWith(Configs)

\* ------------------------------------------------------------- actions
Running == session = "running"

\* a state the bounds allow: a restart in flight still has a runner to spawn
WithinBounds(s) ==
    /\ Len(s.procs) + (IF s.runnerRestarting THEN 1 ELSE 0) <= MaxProcs
    /\ s.absorbed <= MaxAbsorbed
    /\ s.deferred <= MaxDeferred

\* the watcher reports a change of a file: every listener of 'all' runs
FsEvent(file, behaviours) ==
    /\ Running
    /\ ~ paused
    /\ LET s0 == [St EXCEPT !.ev = Event("fs", runner, "")]
           s1 == pluginListeners(coreListener(s0, file), file, behaviours, 1)
           \* a cycle starts when the change makes the supervisor stop a
           \* runner that nobody had stopped before
           c == IF s1.runnerRestarting /\ s1.ev.stopDone = {runner} /\ s1.ev.spawned = 0
                THEN "stopping" ELSE "idle"
       IN WithinBounds(s1) /\ Set([s1 EXCEPT !.cycle = c])

\* a plugin calls the restart callback it kept
DeferredRestart(file) ==
    /\ Running
    /\ deferred > 0
    /\ LET s0 == [St EXCEPT !.ev = Event("deferred", runner, ""), !.deferred = @ - 1]
           s1 == restartRunner(s0, file)
           c == IF runnerRestarting THEN cycle ELSE "idle"
       IN WithinBounds(s1) /\ Set([s1 EXCEPT !.cycle = c])

\* a message of a runner is delivered while its channel is open
CanReceive(p) ==
    /\ Running
    /\ p \in 1..Len(procs)
    /\ procs[p].connected = "true"
    /\ procs[p].os # "reaped"

RequiredMsg(p, required) ==
    /\ CanReceive(p)
    /\ Cardinality(watched) < MaxWatched
    /\ Set(onRequired([St EXCEPT !.ev = Event("required", p, required)], required))

ErrorMsg(p, willTerminate) ==
    /\ CanReceive(p)
    /\ Set(onError([St EXCEPT !.ev = Event("error", p, IF willTerminate THEN "true" ELSE "false"),
                              !.procs[p].announced = @ \/ willTerminate,
                              !.cycle = "idle"],
                   willTerminate))

ServerReadyMsg(p) ==
    /\ CanReceive(p)
    /\ Set(onServerReady([St EXCEPT !.ev = Event("ready", p, ""),
                                    !.cycle = IF cycle = "spawned" /\ p = runner
                                              THEN "ready" ELSE "idle"]))

\* the runner process ends, by itself or by a signal
ChildDies(p, code) ==
    /\ Running
    /\ p \in 1..Len(procs)
    /\ procs[p].os = "alive"
    /\ Set([St EXCEPT !.procs[p].os = "ended", !.procs[p].code = code,
                      !.ev = Event("env", 0, "")])

\* the runner closes its end of the channel, or the channel closes with it
ChildDisconnects(p) ==
    /\ Running
    /\ p \in 1..Len(procs)
    /\ procs[p].connected = "true"
    /\ procs[p].os # "reaped"
    /\ Set([St EXCEPT !.procs[p].connected = "false",
                      !.ev = Event("env", 0, "")])

\* the 'exit' event of a runner that has ended
ExitNotification(p) ==
    /\ Running
    /\ p \in 1..Len(procs)
    /\ procs[p].os = "ended"
    /\ LET s1 == onExit([St EXCEPT !.procs[p].os = "reaped",
                                   !.procs[p].code = "null",
                                   !.ev = Event("exit", p, procs[p].code)],
                        p, procs[p].code)
           c == IF cycle = "stopping" /\ p = runner /\ s1.ev.spawned = 1
                THEN "spawned" ELSE "idle"
       IN Set([s1 EXCEPT !.cycle = c])

\* SIGTERM or SIGINT arrives at the supervisor
ShutdownSignal(sig) ==
    /\ Running
    /\ Set(stopRunnerOnBeforeExit([St EXCEPT !.ev = Event("signal", runner, "")]))

\* a sendSigterm promise settles: .then or .catch runs
SigtermSettles(p, ok) ==
    /\ Running
    /\ p \in sigtermOps
    /\ Set([St EXCEPT !.sigtermOps = @ \ {p},
                      !.resolved = TRUE,
                      !.ev = Event("settle", p, IF ok THEN "then" ELSE "catch")])

Next ==
    \/ \E file \in Files, behaviours \in [Plugins -> PluginBehaviours] : FsEvent(file, behaviours)
    \/ \E file \in Files : DeferredRestart(file)
    \/ \E p \in 1..MaxProcs, willTerminate \in BOOLEAN : ErrorMsg(p, willTerminate)
    \/ \E p \in 1..MaxProcs : ServerReadyMsg(p)
    \/ \E p \in 1..MaxProcs, code \in ExitCodes : ChildDies(p, code)
    \/ \E p \in 1..MaxProcs : ChildDisconnects(p)
    \/ \E p \in 1..MaxProcs : ExitNotification(p)
    \/ \E sig \in Signals : ShutdownSignal(sig)
    \/ \E p \in 1..MaxProcs, ok \in BOOLEAN : SigtermSettles(p, ok)

Spec == Init /\ [][Next]_vars

\* The runners that are expected to end: those sendSigterm was called on and
\* those that announced in an error message that they will terminate.
Doomed(p) ==
    /\ p \in 1..Len(procs)
    /\ procs[p].signalled \/ procs[p].announced

DoomedDies(p) == Doomed(p) /\ \E code \in ExitCodes : ChildDies(p, code)

\* The supervisor with the scheduling Node gives it: a runner that is
\* expected to end does end, and the 'exit' event of an ended runner is
\* emitted.
SpecLive ==
    /\ Init
    /\ [][Next]_vars
    /\ \A p \in 1..MaxProcs : WF_vars(DoomedDies(p)) /\ WF_vars(ExitNotification(p))

\* The 'required' handler reads the configuration and writes the watched set,
\* which nothing else reads: it is explored on its own, over every
\* configuration.
RequiredConfigs ==
    [respawn : {TRUE}, deps : -1..MaxPathLen,
     ignore : {{}, {<<>>}, {<<"b">>}, {<<"N">>}, {<<"a", "b">>}, {<<"a">>, <<"b", "N">>}}]

InitRequired == InitWith(RequiredConfigs)

NextRequired == \E required \in Paths : RequiredMsg(runner, required)

SpecRequired == InitRequired /\ [][NextRequired]_vars

\* ================================================================ claims
LiveRunners == {p \in 1..Len(procs) : procs[p].os = "alive"}
Spawns == Len(procs)

\* C1: at most one runner process is alive at any instant, and startRunner
\* is invoked once at a time and only when the runner it replaces has exited
\* or has had its stop initiated.
C1_AtMostOneLiveRunner ==
    [][/\ Cardinality(LiveRunners') <= 1
       /\ Spawns' > Spawns =>
            /\ Spawns' = Spawns + 1
            /\ procs'[runner].exited \/ procs'[runner].stopping]_vars

C1_Witness ==
    /\ Spawns >= 2
    /\ ev.kind = "exit" /\ ev.spawned = 1
    /\ LiveRunners = {runner}

\* C2: while runnerRestarting stays true no runner is spawned, however many
\* triggers arrive; the step that clears it spawns exactly one; and once it
\* is false no runner has a respawn listener left.
C2_RestartCoalescing ==
    [][/\ runnerRestarting /\ runnerRestarting' => Spawns' = Spawns
       /\ runnerRestarting /\ ~ runnerRestarting' => Spawns' = Spawns + 1
       /\ ~ runnerRestarting' =>
            \A p \in 1..Len(procs') : procs'[p].restartListeners = 0]_vars

C2_Witness ==
    /\ ev.kind = "exit" /\ ev.spawned = 1
    /\ ~ runnerRestarting
    /\ absorbed >= 2

\* C3: a cycle that a file change started on an unpaused watcher and that
\* went through stop, exit, spawn and ready with no error message leaves the
\* watcher unpaused when the ready signal has been handled.
C3_PauseResumeSymmetry ==
    cycle = "ready" => ~ paused

C3_Witness ==
    /\ cycle = "ready"
    /\ ev.kind = "ready" /\ ev.proc = runner
    /\ Spawns >= 2
    /\ ~ paused

\* C4: a call of stopRunner on a process that is already stopping changes
\* none of its flags and sends it neither a disconnect nor a signal, and no
\* process is ever sent more than one signal by stopRunner.
Flags(child) ==
    <<child.exited, child.stopping, child.respawn, child.connected,
      child.disconnects, child.sigterms>>

C4_IdempotentStop ==
    [][\A p \in 1..Len(procs) :
          /\ procs'[p].sigterms <= 1
          /\ (p \in ev'.stopNoop \cup ev'.stopDone /\ procs[p].stopping) =>
                /\ Flags(procs'[p]) = Flags(procs[p])
                /\ p \notin ev'.sigterm]_vars

C4_Witness ==
    /\ ev.kind = "fs"
    /\ ev.stopNoop = {runner}
    /\ procs[runner].stopping /\ ~ procs[runner].exited
    /\ procs[runner].sigterms = 1

\* C5: when the current runner's exit is notified with an exit code, no stop
\* was requested for it and its respawn flag is false, the session ends with
\* that code, and a session that has ended spawns no runner.
C5_FatalUnexpectedExit ==
    [][/\ (/\ ev'.kind = "exit"
           /\ ev'.proc = runner
           /\ procs[runner].code # "null"
           /\ ~ procs[runner].stopping
           /\ ~ procs[runner].respawn) =>
              /\ session' = procs[runner].code
              /\ Spawns' = Spawns
       /\ session # "running" => Spawns' = Spawns]_vars

C5_Witness ==
    /\ ev.kind = "exit" /\ ev.arg = "1"
    /\ session = "1"
    /\ ~ procs[ev.proc].exited

\* C6: an error message with willTerminate true from the current runner,
\* neither exited nor stopping, sends it no signal, sets its stopping and
\* respawn flags, and leaves the watcher unpaused.
C6_ErrorWillTerminate ==
    [][(/\ ev'.kind = "error" /\ ev'.arg = "true"
        /\ ev'.proc = runner
        /\ ~ procs[runner].exited
        /\ ~ procs[runner].stopping) =>
           /\ procs'[runner].sigterms = procs[runner].sigterms
           /\ ev'.sigterm = {}
           /\ procs'[runner].stopping
           /\ procs'[runner].respawn
           /\ ~ paused']_vars

C6_Witness ==
    /\ ev.kind = "error" /\ ev.arg = "true"
    /\ ev.stopDone = {runner}
    /\ ~ cfg.respawn
    /\ procs[runner].respawn /\ procs[runner].stopping
    /\ procs[runner].sigterms = 0

\* C7: a required path is handed to addSilently exactly when no ignore rule
\* is a prefix of it or matches inside it and its nesting level is within
\* cfg.deps, where -1 lifts the bound; the watched set grows by nothing else.
MatchesIgnoreRule(path) ==
    \E rule \in cfg.ignore :
        \E i \in 1..(Len(path) + 1), j \in 0..Len(path) : SubSeq(path, i, j) = rule
NestingLevel(path) == Cardinality({i \in 1..Len(path) : path[i] = "N"})

C7_RequiredFiltering ==
    ev.kind = "required" =>
        /\ ev.arg \in ev.added <=>
              /\ ~ MatchesIgnoreRule(ev.arg)
              /\ cfg.deps = -1 \/ NestingLevel(ev.arg) <= cfg.deps
        /\ ev.added \subseteq {ev.arg}
        /\ ev.added \subseteq watched

C7_Witness ==
    /\ ev.kind = "required"
    /\ ~ MatchesIgnoreRule(ev.arg)
    /\ cfg.deps = 1 /\ NestingLevel(ev.arg) = 1
    /\ ev.arg \in watched /\ ev.arg # tsConfigPath

\* C8: a paused watcher becomes unpaused only in the handling of a ready
\* signal or of an error message; nothing else resumes it.
C8_PausedUntilReadiness ==
    [][paused /\ ~ paused' => ev'.kind \in {"ready", "error"}]_vars

C8_Witness ==
    /\ paused
    /\ ev.kind = "exit" /\ ev.spawned = 1
    /\ ~ runnerRestarting

\* C9: the promise is resolved only by the settling, either way, of the kill
\* sent at shutdown, or at once by a signal that finds the runner exited; a
\* signal that finds it running sends the kill and resolves nothing yet.
C9_ShutdownOrdering ==
    [][/\ ~ resolved /\ resolved' =>
            \/ ev'.kind = "settle"
            \/ ev'.kind = "signal" /\ procs[runner].exited
       /\ ev'.kind = "signal" /\ procs[runner].exited => resolved'
       /\ ev'.kind = "signal" /\ ~ procs[runner].exited =>
            /\ resolved' = resolved
            /\ runner \in sigtermOps'
       /\ ev'.kind = "settle" => resolved']_vars

C9_Witness ==
    /\ resolved
    /\ ev.kind = "settle" /\ ev.arg = "catch"
    /\ ev.proc = runner

\* C10: the exited flag of a runner becomes true only in the handling of
\* that runner's exit notification, and never becomes false again.
C10_ExitedOnlyOnExit ==
    [][\A p \in 1..Len(procs) :
          /\ procs[p].exited => procs'[p].exited
          /\ ~ procs[p].exited /\ procs'[p].exited =>
                ev'.kind = "exit" /\ ev'.proc = p]_vars

C10_Witness ==
    /\ ev.kind = "exit" /\ ev.proc = runner
    /\ procs[runner].exited /\ procs[runner].stopping

\* C11: every call of stopRunner with willTerminate false that goes through
\* (the process neither exited nor stopping) sends the process a termination
\* signal, whatever the state of its channel.
C11_SignalWhateverChannel ==
    [][\A p \in ev'.stopDone :
          (ev'.kind = "error" => ev'.arg = "false") => p \in ev'.sigterm]_vars

\* C12: the exit handler ends the session only for an exit with an exit code
\* of a process that was never stopped and has respawn false; for any other
\* exit it marks the process exited and the session goes on.
C12_ExitOnlyOnCode ==
    [][ev'.kind = "exit" =>
          IF /\ procs[ev'.proc].code # "null"
             /\ ~ procs[ev'.proc].stopping
             /\ ~ procs[ev'.proc].respawn
          THEN session' # "running"
          ELSE session' = "running" /\ procs'[ev'.proc].exited]_vars

\* C12 as amended: the exit handler ends the session exactly when the
\* process has respawn false, with the exit code, or 1 for an exit by a
\* signal; for any other exit it marks the process exited and the session
\* goes on.
C12_ExitOnRespawnFalse ==
    [][ev'.kind = "exit" =>
          IF ~ procs[ev'.proc].respawn
          THEN /\ session' = (IF procs[ev'.proc].code = "null" THEN "1"
                              ELSE procs[ev'.proc].code)
               /\ ~ procs'[ev'.proc].exited
          ELSE session' = "running" /\ procs'[ev'.proc].exited]_vars

C12_Witness ==
    /\ ev.kind = "exit" /\ ev.arg = "null"
    /\ session = "1"
    /\ ev.proc \in sigtermOps

\* C13: the exit of a process that stopRunner has stopped spawns its
\* replacement, with no further trigger.
C13_StopThenRespawn ==
    [][(ev'.kind = "exit" /\ procs[ev'.proc].stopping) => Spawns' = Spawns + 1]_vars

\* C13 as amended: the exit of a stopped process spawns its replacement when
\* a restart is in flight (the stop came from restartRunner, or a restart
\* trigger arrived before the exit); after a stop by the error callback alone
\* the exit spawns nothing and the next restart trigger does.
C13_RespawnWhenRestarting ==
    [][(ev'.kind = "exit" /\ procs[ev'.proc].stopping) =>
          /\ session' = "running"
          /\ IF runnerRestarting
             THEN Spawns' = Spawns + 1 /\ ~ runnerRestarting'
             ELSE Spawns' = Spawns /\ procs'[runner].exited /\ runner' = runner]_vars

C13_Witness ==
    /\ ev.kind = "exit" /\ ev.proc = runner /\ ev.spawned = 0
    /\ procs[runner].stopping /\ procs[runner].exited
    /\ procs[runner].sigterms = 1
    /\ session = "running"

\* A step in which restartRunner was called: a kept restart call of a plugin,
\* or a file change that some listener acted on (which leaves the watcher
\* paused).
RestartTriggered == ev'.kind = "deferred" \/ (ev'.kind = "fs" /\ paused')

\* C14: a trigger that finds runnerRestarting false and the runner exited
\* spawns the replacement in the same step and leaves the flag false (unless
\* another listener of the same file change then restarts the new runner);
\* one that finds the runner not exited requests its stop, spawns nothing and
\* sets the flag, which stays true with no spawn until that runner's exit
\* notification; that step spawns exactly one runner, makes it current and
\* clears the flag.
C14_RestartSequence ==
    [][/\ (RestartTriggered /\ ~ runnerRestarting /\ procs[runner].exited) =>
            /\ ev'.spawned = 1 /\ Spawns' = Spawns + 1
            /\ runner' = Spawns'
            /\ ev'.kind = "deferred" => ~ runnerRestarting'
            /\ runnerRestarting' => ev'.stopDone = {runner'}
       /\ (RestartTriggered /\ ~ runnerRestarting /\ ~ procs[runner].exited) =>
            /\ ev'.stopDone \cup ev'.stopNoop = {runner}
            /\ ev'.spawned = 0 /\ Spawns' = Spawns
            /\ runner' = runner
            /\ runnerRestarting'
            /\ procs'[runner].restartListeners = 1
       /\ (runnerRestarting /\ ev'.kind # "exit") =>
            /\ runnerRestarting'
            /\ Spawns' = Spawns
            /\ runner' = runner
       /\ (runnerRestarting /\ ev'.kind = "exit") =>
            /\ ev'.proc = runner
            /\ ev'.spawned = 1 /\ Spawns' = Spawns + 1
            /\ runner' = Spawns'
            /\ ~ runnerRestarting']_vars

C14_Witness ==
    /\ ev.kind = "exit" /\ ev.spawned = 1
    /\ cycle = "spawned"
    /\ runner = Spawns /\ Spawns >= 2
    /\ ~ runnerRestarting
    /\ procs[runner].os = "alive" /\ ~ procs[runner].stopping

\* C15: a restart in flight eventually spawns the replacement and clears
\* runnerRestarting, given that every runner that was sent a termination
\* signal or announced willTerminate ends.
C15_RestartLiveness == runnerRestarting ~> ~ runnerRestarting

\* C16: the handling of an error message of the current runner leaves the
\* watcher unpaused and the runner stopping with respawn true; the exit of a
\* stopping runner, whatever its code, marks it exited and does not end the
\* session; and a file change that a listener acts on while the runner is
\* exited and no restart is in flight spawns a runner in that step.
C16_ErrorRecovery ==
    [][/\ (ev'.kind = "error" /\ ev'.proc = runner) =>
            /\ ~ paused'
            /\ session' = "running"
            /\ procs'[runner].stopping /\ procs'[runner].respawn
       /\ (ev'.kind = "exit" /\ procs[ev'.proc].stopping) =>
            /\ session' = "running"
            /\ procs'[ev'.proc].exited
       /\ (ev'.kind = "fs" /\ paused' /\ procs[runner].exited /\ ~ runnerRestarting) =>
            /\ ev'.spawned >= 1
            /\ procs'[runner'].os = "alive"]_vars

C16_Witness ==
    /\ ev.kind = "fs" /\ ev.spawned = 1
    /\ ~ cfg.respawn
    /\ Spawns = 2 /\ runner = 2
    /\ procs[1].exited
    /\ ~ runnerRestarting
    /\ session = "running"

\* C17: a restart trigger that finds runnerRestarting true pauses the
\* watcher and does nothing else: the flag, the current runner and every
\* runner's flags and listeners stay as they are, stopRunner is not called,
\* no signal is sent and nothing is spawned.
C17_AbsorbedTriggerFrame ==
    [][(RestartTriggered /\ runnerRestarting) =>
          /\ paused'
          /\ runnerRestarting'
          /\ runner' = runner
          /\ procs' = procs
          /\ ev'.stopNoop = {} /\ ev'.stopDone = {} /\ ev'.sigterm = {}
          /\ ev'.spawned = 0
          /\ sigtermOps' = sigtermOps]_vars

C17_Witness ==
    /\ ev.kind = "deferred"
    /\ runnerRestarting
    /\ absorbed >= 1
    /\ paused
    /\ procs[runner].restartListeners = 1

\* C18: a file change reaches the core listener and every plugin listener,
\* whether the core listener ignores it or restarts for it (a plugin that
\* keeps the restart callback is seen to have received it), and when the core
\* listener has acted on it the restart calls of the plugins add no stop and
\* no spawn: the step does what the core listener alone does.
Deferring(behaviours) == Cardinality({i \in Plugins : behaviours[i] = "defer"})

C18_ListenerFanOut ==
    [][\A file \in Files, behaviours \in [Plugins -> PluginBehaviours] :
          FsEvent(file, behaviours) =>
             /\ isMatchedByPluginListener(file) =>
                   deferred' = deferred + Deferring(behaviours)
             /\ ~ isIgnoredByCoreListener(file) =>
                   IF procs[runner].exited /\ ~ runnerRestarting
                   THEN /\ ev'.spawned = 1
                        /\ ev'.stopDone = {}
                        /\ ~ runnerRestarting'
                   ELSE /\ ev'.spawned = 0
                        /\ ev'.stopDone \subseteq {runner}]_vars

\* A shutdown signal has arrived: it resolved the promise at once, or its
\* kill is pending, or the kill has settled and resolved the promise.
ShutdownRequested == resolved \/ sigtermOps # {}

\* C19: once a shutdown signal has arrived no runner is spawned, also when
\* it arrives during a restart whose runner has yet to exit (a runner spawned
\* after the signal is sent no kill and is alive when the promise resolves).
C19_NoSpawnAfterShutdown ==
    [][ShutdownRequested => Spawns' = Spawns]_vars

\* C20: while runnerRestarting is true the current runner has not exited,
\* is stopping, has respawn true and carries exactly one respawn listener;
\* when the current runner has exited, runnerRestarting is false.
C20_RestartingInvariant ==
    /\ runnerRestarting =>
          /\ ~ procs[runner].exited
          /\ procs[runner].stopping
          /\ procs[runner].respawn
          /\ procs[runner].restartListeners = 1
    /\ procs[runner].exited => ~ runnerRestarting

C20_Witness ==
    /\ runnerRestarting
    /\ ev.kind = "fs" /\ ev.stopNoop = {runner}
    /\ procs[runner].os = "ended"
    /\ absorbed >= 1

TypeOK ==
    /\ runner \in 1..Len(procs)
    /\ Len(procs) <= MaxProcs
    /\ session \in {"running", "0", "1"}
====
